---- MODULE Spec2Model ----
(***************************************************************************)
(* pi-retry (src/index.ts): automatic retry of transient streaming errors  *)
(* with exponential backoff, manual retry through the /retry command and   *)
(* through Enter on an empty editor, and the context handler that strips   *)
(* the hidden trigger message.                                             *)
(*                                                                         *)
(* The extension's five closure variables, the status line, the log, the   *)
(* pending backoff timers and the host's append-only session history are   *)
(* the state.  Each handler registered with the host is one action.  The   *)
(* host (pi) is the environment: it starts the session, runs turns one at  *)
(* a time, assembles the context before every model call, delivers         *)
(* turn_end after every model call and agent_end when the run is over,     *)
(* and appends every message it is given to the session.  The log and the  *)
(* notifications are kept as what the last handler step produced.          *)
(***************************************************************************)
EXTENDS Integers, Sequences, FiniteSets, TLC

\* ---------------------------------------------------------------------
\* Config (src/index.ts:38-48)
\* ---------------------------------------------------------------------
MAX_RETRIES == 3
BASE_DELAY_MS == 2000
RETRY_CUSTOM_TYPE == "__retry_trigger"

\* ---------------------------------------------------------------------
\* Bounds of the model
\* ---------------------------------------------------------------------
\* Longest session history explored (messages appended by the host).
MaxHistory == 8
\* Longest session history explored with the larger set of error texts.
MaxPatternHistory == 6
\* Most backoff timers pending at once.
MaxWaits == 2
\* Longest session history explored with one kind of failure.
MaxEpisodeHistory == 11
\* Most deliveries of session_start to one instance of the extension.
MaxSessionStarts == 2
\* The same, in the sessions of every kind of event at the longest history.
MaxWideSessionStarts == 1

\* ---------------------------------------------------------------------
\* Text helpers: JavaScript string and RegExp operations, on strings
\* ---------------------------------------------------------------------
CharAt(s, i) == SubSeq(s, i, i)

LowerChar(c) ==
  CASE c = "A" -> "a" [] c = "B" -> "b" [] c = "C" -> "c" [] c = "D" -> "d"
    [] c = "E" -> "e" [] c = "F" -> "f" [] c = "G" -> "g" [] c = "H" -> "h"
    [] c = "I" -> "i" [] c = "J" -> "j" [] c = "K" -> "k" [] c = "L" -> "l"
    [] c = "M" -> "m" [] c = "N" -> "n" [] c = "O" -> "o" [] c = "P" -> "p"
    [] c = "Q" -> "q" [] c = "R" -> "r" [] c = "S" -> "s" [] c = "T" -> "t"
    [] c = "U" -> "u" [] c = "V" -> "v" [] c = "W" -> "w" [] c = "X" -> "x"
    [] c = "Y" -> "y" [] c = "Z" -> "z" [] OTHER -> c

\* The /i flag: both regular expressions compare case-insensitively.
LowerString[s \in STRING] ==
  IF Len(s) = 0 THEN ""
  ELSE LowerChar(CharAt(s, 1)) \o LowerString[SubSeq(s, 2, Len(s))]

Lower(s) == LowerString[s]

\* \w of a JavaScript RegExp.
IsWordChar(c) ==
  c \in {"a", "b", "c", "d", "e", "f", "g", "h", "i", "j", "k", "l", "m",
         "n", "o", "p", "q", "r", "s", "t", "u", "v", "w", "x", "y", "z",
         "A", "B", "C", "D", "E", "F", "G", "H", "I", "J", "K", "L", "M",
         "N", "O", "P", "Q", "R", "S", "T", "U", "V", "W", "X", "Y", "Z",
         "0", "1", "2", "3", "4", "5", "6", "7", "8", "9", "_"}

\* s has an occurrence of the literal p starting at position i.
MatchAt(s, p, i) == i >= 1 /\ i + Len(p) - 1 <= Len(s) /\ SubSeq(s, i, i + Len(p) - 1) = p

\* The literal p occurs somewhere in s.
Contains(s, p) == \E i \in 1..(Len(s) + 1) : MatchAt(s, p, i)

\* A line terminator of a RegExp, which the dot does not match.  (U+2028
\* and U+2029 are line terminators as well; a TLA+ string cannot hold
\* them, so no text of the model does.)
IsLineTerminator(c) == c \in {"\n", "\r"}

\* The pattern a.?b occurs in s: a, then at most one character that is no
\* line terminator, then b.
ContainsOpt(s, a, b) ==
  \E i \in 1..(Len(s) + 1) :
    /\ MatchAt(s, a, i)
    /\ \/ MatchAt(s, b, i + Len(a))
       \/ /\ i + Len(a) <= Len(s)
          /\ ~IsLineTerminator(CharAt(s, i + Len(a)))
          /\ MatchAt(s, b, i + Len(a) + 1)

\* The pattern \bp\b occurs in s, for a literal p of word characters.
ContainsWord(s, p) ==
  \E i \in 1..(Len(s) + 1) :
    /\ MatchAt(s, p, i)
    /\ (i = 1 \/ ~IsWordChar(CharAt(s, i - 1)))
    /\ (i + Len(p) > Len(s) \/ ~IsWordChar(CharAt(s, i + Len(p))))

\* The characters String.prototype.trim strips: the WhiteSpace and the
\* LineTerminator characters of ECMAScript.  In the order written: space,
\* tab, line feed, carriage return, form feed, U+000B, U+00A0, U+1680 and
\* U+FEFF.  (The rest, U+2000 to U+200A, U+2028, U+2029, U+202F, U+205F
\* and U+3000, cannot be written in a TLA+ string, so no text of the model
\* holds them.)
IsSpace(c) == c \in {" ", "\t", "\n", "\r", "\f", "", " ", " ", "﻿"}

RECURSIVE TrimStart(_)
TrimStart(s) ==
  IF Len(s) > 0 /\ IsSpace(CharAt(s, 1)) THEN TrimStart(SubSeq(s, 2, Len(s))) ELSE s

RECURSIVE TrimEnd(_)
TrimEnd(s) ==
  IF Len(s) > 0 /\ IsSpace(CharAt(s, Len(s))) THEN TrimEnd(SubSeq(s, 1, Len(s) - 1)) ELSE s

\* String.prototype.trim
Trim(s) == TrimEnd(TrimStart(s))

\* ---------------------------------------------------------------------
\* The patterns
\* ---------------------------------------------------------------------
\* The three tests are functions of the lowered text, applied to the text
\* of the message.
\* /\baborted\b/i
RetryableTest[t \in STRING] == ContainsWord(t, "aborted")

RETRYABLE_PATTERNS(errorMessage) == RetryableTest[Lower(errorMessage)]

\* /overloaded|rate.?limit|too many requests|429|500|502|503|504|
\*  service.?unavailable|server error|internal error|connection.?error|
\*  connection.?refused|other side closed|fetch failed|upstream.?connect|
\*  reset before headers|terminated|retry delay/i
BuiltinRetryTest[t \in STRING] ==
    \/ Contains(t, "overloaded")
    \/ ContainsOpt(t, "rate", "limit")
    \/ Contains(t, "too many requests")
    \/ Contains(t, "429")
    \/ Contains(t, "500")
    \/ Contains(t, "502")
    \/ Contains(t, "503")
    \/ Contains(t, "504")
    \/ ContainsOpt(t, "service", "unavailable")
    \/ Contains(t, "server error")
    \/ Contains(t, "internal error")
    \/ ContainsOpt(t, "connection", "error")
    \/ ContainsOpt(t, "connection", "refused")
    \/ Contains(t, "other side closed")
    \/ Contains(t, "fetch failed")
    \/ ContainsOpt(t, "upstream", "connect")
    \/ Contains(t, "reset before headers")
    \/ Contains(t, "terminated")
    \/ Contains(t, "retry delay")

BUILTIN_RETRY_PATTERNS(errorMessage) == BuiltinRetryTest[Lower(errorMessage)]

\* /operation aborted|request was aborted/i
UserAbortTest[t \in STRING] ==
  Contains(t, "operation aborted") \/ Contains(t, "request was aborted")

UserAbortPattern(errorMessage) == UserAbortTest[Lower(errorMessage)]

\* ---------------------------------------------------------------------
\* Inputs of the model
\* ---------------------------------------------------------------------
\* errorMessage of an assistant message ("" is an absent errorMessage,
\* which line 154 reads as "").
ErrorTexts ==
  {"upstream aborted connection",
   "Request was aborted.",
   "stream aborted, server error",
   "rate limit exceeded",
   "Aborted_by_peer",
   "invalid api key",
   ""}

\* The error texts of the pattern specification: the texts above, the other
\* user-cancellation phrase, and one text for every alternative of
\* BUILTIN_RETRY_PATTERNS, some with the word "aborted" as well; two texts
\* have a line terminator where an alternative has its dot.
PatternTexts ==
  ErrorTexts \cup
  {"The operation aborted",
   "rate\nlimit aborted",
   "connection\rerror",
   "ABORTED",
   "Overloaded",
   "aborted: RateLimit",
   "rate  limit",
   "Too Many Requests",
   "429", "HTTP 500", "502 aborted", "503", "504",
   "Service Unavailable",
   "internal error",
   "Connection error.",
   "connection_refused",
   "other side closed",
   "fetch failed",
   "upstream connect",
   "reset before headers",
   "terminated",
   "retry delay"}

\* How a model call can end: a stop reason and an error text.  "normal" and
\* "toolUse" stand for the stop reasons that are neither "error" nor
\* "aborted"; a turn that stops for a tool call carries no error text.
TurnOutcomes ==
  ({"normal", "error", "aborted"} \X ErrorTexts) \cup {<<"toolUse", "">>}

PatternOutcomes == {"normal", "error", "aborted"} \X PatternTexts

\* Raw terminal input, named by the key it encodes; matchesKey(data, "enter")
\* of pi-tui holds of the Enter key alone.
TerminalData == {"enter", "x"}
matchesKey(data, key) == data = key

\* An editor text of white space alone, of every kind IsSpace lists.
BlankEditorText == " \t\n\r\f ﻿"

\* What ctx.ui.getEditorText() returns: nothing, white space, a prompt, and
\* a prompt between spaces.
EditorTexts == {"", BlankEditorText, "fix it", " y "}

\* ---------------------------------------------------------------------
\* Messages
\* ---------------------------------------------------------------------
Message(role, customType, stopReason, errorMessage) ==
  [role |-> role, customType |-> customType,
   stopReason |-> stopReason, errorMessage |-> errorMessage]

UserMessage == Message("user", "", "", "")
ToolResultMessage == Message("toolResult", "", "", "")
AssistantMessage(stopReason, errorMessage) == Message("assistant", "", stopReason, errorMessage)
\* The message triggerRetry sends; the host stores it with role "custom".
TriggerMessage == Message("custom", RETRY_CUSTOM_TYPE, "", "")

\* The session history keeps, of every message, the two fields the
\* context handler reads.
Stored(msg) == [role |-> msg.role, customType |-> msg.customType]

IsMarker(msg) == msg.role = "custom" /\ msg.customType = RETRY_CUSTOM_TYPE

\* ---------------------------------------------------------------------
\* Log entries, notifications, status line
\* ---------------------------------------------------------------------
\* A RetryLogEntry without the fields the host passes through unchanged
\* (timestamp, model identity, thinking level, cwd, session id).  An absent
\* stopReason or errorMessage is "", an absent delayMs is 0.
LogEntry(event, stopReason, errorMessage, attempt, maxRetries, delayMs) ==
  [event |-> event, stopReason |-> stopReason, errorMessage |-> errorMessage,
   attempt |-> attempt, maxRetries |-> maxRetries, delayMs |-> delayMs]

\* ctx.ui.notify(text, level); the two interpolated values are kept apart.
Notification(text, attempt, errorMessage, level) ==
  [text |-> text, attempt |-> attempt, errorMessage |-> errorMessage, level |-> level]
NoNotification == Notification("", 0, "", "")

\* ctx.ui.setStatus("pi-retry", text): the values interpolated in the text.
StatusText(errorMessage, attempt, maxRetries, seconds) ==
  [set |-> TRUE, errorMessage |-> errorMessage, attempt |-> attempt,
   maxRetries |-> maxRetries, seconds |-> seconds]
StatusUnset ==
  [set |-> FALSE, errorMessage |-> "", attempt |-> 0, maxRetries |-> 0, seconds |-> 0]

\* ---------------------------------------------------------------------
\* State
\* ---------------------------------------------------------------------
VARIABLES
  retryAttempt,          \* src/index.ts:89
  lastErrorMessage,      \* src/index.ts:90
  lastStopReason,        \* src/index.ts:91
  lastResponseWasError,  \* src/index.ts:95
  pendingRetryCleanup,   \* src/index.ts:98
  status,                \* the "pi-retry" status line
  logged,                \* the entries the last handler gave logRetryEvent
  appended,              \* those of them appendFileSync added to the log file
  waits,                 \* backoff timers started and not yet expired
  interceptors,          \* callbacks registered with ctx.ui.onTerminalInput
  history,               \* the host's append-only session history
  runMessages,           \* the messages of the current agent run
  phase,                 \* where the host is in its run
  modelView,             \* the message list last handed to the model
  returned,              \* what the last handler returned
  notified,              \* the notification the last handler made
  autoTriggers           \* triggers sent by expired timers since retryAttempt
                         \* was last reset to 0 (kept by the observer)

extVars == <<retryAttempt, lastErrorMessage, lastStopReason, lastResponseWasError,
             pendingRetryCleanup>>
episodeVars == <<retryAttempt, lastErrorMessage, lastStopReason>>
hostVars == <<history, runMessages, phase>>
vars == <<retryAttempt, lastErrorMessage, lastStopReason, lastResponseWasError,
          pendingRetryCleanup, status, logged, appended, waits, interceptors, history,
          runMessages, phase, modelView, returned, notified, autoTriggers>>

\* ctx.isIdle(): no agent run is in progress.
isIdle == phase = "idle"

Init ==
  /\ retryAttempt = 0
  /\ lastErrorMessage = ""
  /\ lastStopReason = ""
  /\ lastResponseWasError = FALSE
  /\ pendingRetryCleanup = FALSE
  /\ status = StatusUnset
  /\ logged = <<>>
  /\ appended = <<>>
  /\ waits = <<>>
  /\ interceptors = 0
  /\ history = <<>>
  /\ runMessages = <<>>
  /\ phase = "idle"
  /\ modelView = <<>>
  /\ returned = "undefined"
  /\ notified = NoNotification
  /\ autoTriggers = 0

\* ---------------------------------------------------------------------
\* Helpers of the extension
\* ---------------------------------------------------------------------
\* logRetryEvent without the catch: what mkdirSync or appendFileSync throws
\* leaves the handler, and a handler finishes only after an append that
\* succeeded.
logRetryEvent_NoCatch(entry) ==
  /\ logged' = <<entry>>
  /\ appended' = <<entry>>

\* logRetryEvent: the append is attempted once; it adds the entry to the
\* file, or mkdirSync or appendFileSync throws and the catch swallows it.
logRetryEvent(entry) ==
  /\ logged' = <<entry>>
  /\ appended' \in {<<entry>>, <<>>}

\* A handler that logs nothing.
NoLog ==
  /\ logged' = <<>>
  /\ appended' = <<>>

\* pi.sendMessage(message, { triggerTurn: true }): the host appends the
\* message to the session; an idle agent starts a run with it, a running
\* agent takes it into the run in progress.
sendMessage(msg) ==
  /\ history' = Append(history, Stored(msg))
  /\ IF isIdle
       THEN /\ phase' = "assemble"
            /\ runMessages' = <<msg>>
       ELSE /\ phase' = phase
            /\ runMessages' = Append(runMessages, msg)

triggerRetry ==
  /\ pendingRetryCleanup' = TRUE
  /\ sendMessage(TriggerMessage)

\* Index of the last assistant message of the list, 0 when it has none
\* (the loop of lines 145-150).
LastAssistantIndex(messages) ==
  LET found == {i \in 1..Len(messages) : messages[i].role = "assistant"}
  IN IF found = {} THEN 0 ELSE CHOOSE i \in found : \A j \in found : j <= i

\* Classify with the auto-retryable test ahead of the host-covered one.
Classify_RetryableFirst(stopReason, errorMessage) ==
  IF stopReason = "aborted" /\ UserAbortPattern(errorMessage) THEN "ignore"
  ELSE IF stopReason # "error" /\ stopReason # "aborted" THEN "terminal"
  ELSE IF RETRYABLE_PATTERNS(errorMessage) THEN "auto-retryable"
  ELSE IF BUILTIN_RETRY_PATTERNS(errorMessage) THEN "deferred"
  ELSE "terminal"

\* Classify without the return of line 169.
Classify_NoStopReasonCheck(stopReason, errorMessage) ==
  IF stopReason = "aborted" /\ UserAbortPattern(errorMessage) THEN "ignore"
  ELSE IF BUILTIN_RETRY_PATTERNS(errorMessage) THEN "deferred"
  ELSE IF ~RETRYABLE_PATTERNS(errorMessage) THEN "terminal"
  ELSE "auto-retryable"

\* The verdict the early returns of agent_end amount to, in their order.
Classify(stopReason, errorMessage) ==
  IF stopReason = "aborted" /\ UserAbortPattern(errorMessage) THEN "ignore"
  ELSE IF stopReason # "error" /\ stopReason # "aborted" THEN "terminal"
  ELSE IF BUILTIN_RETRY_PATTERNS(errorMessage) THEN "deferred"
  ELSE IF ~RETRYABLE_PATTERNS(errorMessage) THEN "terminal"
  ELSE "auto-retryable"

\* TrackFailure that takes an error, and not an abort, for a failure.
TrackFailure_ErrorOnly(stopReason, wasError) ==
  IF stopReason = "error" THEN TRUE ELSE wasError

\* Lines 157-159: the flag the manual retry gates read.
TrackFailure(stopReason, wasError) ==
  IF stopReason = "error" \/ stopReason = "aborted" THEN TRUE ELSE wasError

\* EpisodeActive that takes the first attempt for no episode yet.
EpisodeActive_AfterFirst(attempt) == attempt > 1

\* EpisodeActive that holds of the idle counter as well.
EpisodeActive_Always(attempt) == attempt >= 0

\* Line 112: an episode is in progress.
EpisodeActive(attempt) == attempt > 0

\* BackoffDelay growing linearly.
BackoffDelay_Linear(attempt) == BASE_DELAY_MS * attempt

\* Line 211.
BackoffDelay(attempt) == BASE_DELAY_MS * 2 ^ (attempt - 1)

\* ExhaustedAttempt reporting the incremented counter.
ExhaustedAttempt_Incremented(attempt) == attempt

\* The attempt the exhaustion record reports (line 194).
ExhaustedAttempt(attempt) == attempt - 1

\* Exhausted that gives up when the counter reaches the ceiling.
Exhausted_AtCeiling(attempt) == attempt >= MAX_RETRIES

\* Exhausted that lets one more attempt through.
Exhausted_OffByOne(attempt) == attempt > MAX_RETRIES + 1

\* retryAttempt > MAX_RETRIES (line 183), of the incremented counter.
Exhausted(attempt) == attempt > MAX_RETRIES

\* ---------------------------------------------------------------------
\* Handlers
\* ---------------------------------------------------------------------
\* pi.on("turn_end")
turn_end(msg) ==
  /\ returned' = "undefined"
  /\ UNCHANGED <<pendingRetryCleanup, waits>>
  /\ IF msg.role = "assistant" /\ msg.stopReason # "error" /\ msg.stopReason # "aborted"
       THEN /\ lastResponseWasError' = FALSE
            /\ IF EpisodeActive(retryAttempt)
                 THEN /\ logRetryEvent(LogEntry("retry_succeeded", lastStopReason,
                                                lastErrorMessage, retryAttempt,
                                                MAX_RETRIES, 0))
                      /\ notified' = Notification("Retry succeeded on attempt",
                                                  retryAttempt, "", "info")
                      /\ status' = StatusUnset
                      /\ retryAttempt' = 0
                      /\ lastErrorMessage' = ""
                      /\ lastStopReason' = ""
                      /\ autoTriggers' = 0
                 ELSE /\ notified' = NoNotification
                      /\ UNCHANGED <<episodeVars, status, autoTriggers>>
                      /\ NoLog
       ELSE /\ notified' = NoNotification
            /\ UNCHANGED <<lastResponseWasError, episodeVars, status, autoTriggers>>
            /\ NoLog

\* pi.on("agent_end"), up to the await of line 235
agent_end(messages) ==
  LET i == LastAssistantIndex(messages) IN
  /\ returned' = "undefined"
  /\ UNCHANGED pendingRetryCleanup
  /\ IF i = 0
       THEN /\ notified' = NoNotification
            /\ UNCHANGED <<lastResponseWasError, episodeVars, status, waits,
                           autoTriggers>>
            /\ NoLog
       ELSE
         LET stopReason == messages[i].stopReason
             errorMessage == messages[i].errorMessage
             attempt == retryAttempt + 1
             delayMs == BackoffDelay(attempt)
         IN
         /\ lastResponseWasError' = TrackFailure(stopReason, lastResponseWasError)
         /\ IF Classify(stopReason, errorMessage) # "auto-retryable"
              THEN /\ notified' = NoNotification
                   /\ UNCHANGED <<episodeVars, status, waits, autoTriggers>>
                   /\ NoLog
              ELSE IF Exhausted(attempt)
              THEN /\ logRetryEvent(LogEntry("retry_exhausted", stopReason, errorMessage,
                                             ExhaustedAttempt(attempt), MAX_RETRIES, 0))
                   /\ notified' = Notification("Stream error persisted after retries",
                                               MAX_RETRIES, errorMessage, "error")
                   /\ status' = StatusUnset
                   /\ retryAttempt' = 0
                   /\ lastErrorMessage' = ""
                   /\ lastStopReason' = ""
                   /\ autoTriggers' = 0
                   /\ UNCHANGED waits
              ELSE /\ retryAttempt' = attempt
                   /\ lastErrorMessage' = errorMessage
                   /\ lastStopReason' = stopReason
                   /\ logRetryEvent(LogEntry("retry", stopReason, errorMessage, attempt,
                                             MAX_RETRIES, delayMs))
                   /\ status' = StatusText(errorMessage, attempt, MAX_RETRIES,
                                           delayMs \div 1000)
                   /\ waits' = Append(waits, [attempt |-> attempt, delayMs |-> delayMs])
                   /\ notified' = NoNotification
                   /\ UNCHANGED autoTriggers

\* agent_end_resume without line 236: the status line is left as it is.
agent_end_resume_KeepStatus ==
  /\ status' = status
  /\ triggerRetry
  /\ returned' = "undefined"
  /\ notified' = NoNotification
  /\ UNCHANGED <<episodeVars, lastResponseWasError>>
  /\ autoTriggers' = autoTriggers + 1
  /\ NoLog

\* agent_end_resume that gives the retry up when the agent is no longer idle.
agent_end_resume_IdleOnly ==
  /\ status' = StatusUnset
  /\ IF isIdle
       THEN /\ triggerRetry
            /\ autoTriggers' = autoTriggers + 1
       ELSE UNCHANGED <<pendingRetryCleanup, hostVars, autoTriggers>>
  /\ returned' = "undefined"
  /\ notified' = NoNotification
  /\ UNCHANGED <<episodeVars, lastResponseWasError>>
  /\ NoLog

\* agent_end after the await: lines 236-238, run when the timer expires
agent_end_resume ==
  /\ status' = StatusUnset
  /\ triggerRetry
  /\ returned' = "undefined"
  /\ notified' = NoNotification
  /\ UNCHANGED <<episodeVars, lastResponseWasError>>
  /\ autoTriggers' = autoTriggers + 1
  /\ NoLog

\* RetryVerdict without the idle test.
RetryVerdict_NoIdleCheck ==
  IF ~lastResponseWasError THEN "nothing" ELSE "retry"

\* The two early returns of the /retry command (lines 247-255).
RetryVerdict ==
  IF ~isIdle THEN "running"
  ELSE IF ~lastResponseWasError THEN "nothing"
  ELSE "retry"

\* retry that starts the episode afresh when it retries.
retry_ResetEpisode ==
  /\ returned' = "undefined"
  /\ UNCHANGED <<lastResponseWasError, status, waits>>
  /\ IF RetryVerdict = "running"
       THEN /\ notified' = Notification("Agent is still running.", 0, "", "warning")
            /\ UNCHANGED <<episodeVars, autoTriggers, pendingRetryCleanup, hostVars>>
            /\ NoLog
       ELSE IF RetryVerdict = "nothing"
       THEN /\ notified' = Notification(
                   "Nothing to retry - last response completed successfully.",
                   0, "", "warning")
            /\ UNCHANGED <<episodeVars, autoTriggers, pendingRetryCleanup, hostVars>>
            /\ NoLog
       ELSE /\ logRetryEvent(LogEntry("manual_retry", "", "", 1, 1, 0))
            /\ triggerRetry
            /\ notified' = NoNotification
            /\ retryAttempt' = 0
            /\ lastErrorMessage' = ""
            /\ lastStopReason' = ""
            /\ autoTriggers' = 0

\* pi.registerCommand("retry").handler
retry ==
  /\ returned' = "undefined"
  /\ UNCHANGED <<episodeVars, lastResponseWasError, status, waits, autoTriggers>>
  /\ IF RetryVerdict = "running"
       THEN /\ notified' = Notification("Agent is still running.", 0, "", "warning")
            /\ UNCHANGED <<pendingRetryCleanup, hostVars>>
            /\ NoLog
       ELSE IF RetryVerdict = "nothing"
       THEN /\ notified' = Notification(
                   "Nothing to retry - last response completed successfully.",
                   0, "", "warning")
            /\ UNCHANGED <<pendingRetryCleanup, hostVars>>
            /\ NoLog
       ELSE /\ logRetryEvent(LogEntry("manual_retry", "", "", 1, 1, 0))
            /\ triggerRetry
            /\ notified' = NoNotification

\* InputGate comparing the editor text untrimmed.
InputGate_NoTrim(data, editorText) ==
  /\ matchesKey(data, "enter")
  /\ lastResponseWasError
  /\ isIdle
  /\ editorText = ""

\* The interceptor consumes the input (lines 284-287 all pass).
InputGate(data, editorText) ==
  /\ matchesKey(data, "enter")
  /\ lastResponseWasError
  /\ isIdle
  /\ Trim(editorText) = ""

\* The callback given to ctx.ui.onTerminalInput
onTerminalInput(data, editorText) ==
  /\ notified' = NoNotification
  /\ UNCHANGED <<episodeVars, lastResponseWasError, status, waits, autoTriggers>>
  /\ IF InputGate(data, editorText)
       THEN /\ logRetryEvent(LogEntry("manual_retry", "", "", 1, 1, 0))
            /\ triggerRetry
            /\ returned' = "consume"
       ELSE /\ returned' = "undefined"
            /\ UNCHANGED <<pendingRetryCleanup, hostVars>>
            /\ NoLog

\* Cleaned removing by position: the newest message, when it is a marker.
Cleaned_NewestOnly(messages) ==
  IF messages # <<>> /\ IsMarker(messages[Len(messages)])
    THEN SubSeq(messages, 1, Len(messages) - 1)
    ELSE messages

\* The list the context handler returns for event.messages.
Cleaned(messages) == SelectSeq(messages, LAMBDA msg : ~IsMarker(msg))

\* pi.on("context"): the host hands the model the returned list, or
\* event.messages when the handler returns nothing.
context(messages) ==
  /\ notified' = NoNotification
  /\ UNCHANGED <<episodeVars, lastResponseWasError, status, waits, autoTriggers>>
  /\ NoLog
  /\ IF ~pendingRetryCleanup
       THEN /\ returned' = "undefined"
            /\ modelView' = messages
            /\ UNCHANGED pendingRetryCleanup
       ELSE /\ pendingRetryCleanup' = FALSE
            /\ returned' = "messages"
            /\ modelView' = Cleaned(messages)

\* ---------------------------------------------------------------------
\* Actions: the host delivers an event, the handler runs
\* ---------------------------------------------------------------------
\* session_start: the handler registers one more interceptor, every time
\* the event is delivered.
SessionStart ==
  /\ interceptors' = interceptors + 1
  /\ returned' = "undefined"
  /\ notified' = NoNotification
  /\ UNCHANGED <<extVars, status, waits, hostVars, modelView, autoTriggers>>
  /\ NoLog

\* The user submits a prompt to the idle agent of a session that has
\* started: a run starts.
UserPrompt ==
  /\ interceptors > 0
  /\ isIdle
  /\ history' = Append(history, Stored(UserMessage))
  /\ runMessages' = <<UserMessage>>
  /\ phase' = "assemble"
  /\ returned' = "undefined"
  /\ notified' = NoNotification
  /\ UNCHANGED <<extVars, status, waits, interceptors, modelView, autoTriggers>>
  /\ NoLog

\* The host assembles the context for the next model call.
ContextAssembly ==
  /\ phase = "assemble"
  /\ context(history)
  /\ phase' = "streaming"
  /\ UNCHANGED <<interceptors, history, runMessages>>

\* The model call ends with an assistant message; a turn that stopped for a
\* tool call is followed by the tool's result and another turn.
TurnEnd(stopReason, errorMessage) ==
  LET msg == AssistantMessage(stopReason, errorMessage)
      added == IF stopReason = "toolUse" THEN <<msg, ToolResultMessage>> ELSE <<msg>>
  IN
  /\ phase = "streaming"
  /\ turn_end(msg)
  /\ history' = history \o [k \in 1..Len(added) |-> Stored(added[k])]
  /\ runMessages' = runMessages \o added
  /\ phase' = IF stopReason = "toolUse" THEN "assemble" ELSE "ending"
  /\ UNCHANGED <<interceptors, modelView>>

\* The run is over: agent_end is delivered with the run's messages and the
\* agent is idle from then on, also while the handler waits.
AgentEnd ==
  /\ phase = "ending"
  /\ agent_end(runMessages)
  /\ phase' = "idle"
  /\ runMessages' = <<>>
  /\ UNCHANGED <<interceptors, history, modelView>>

\* A backoff timer expires and its handler resumes.
TimerFire(w) ==
  /\ w \in 1..Len(waits)
  /\ waits' = [k \in 1..(Len(waits) - 1) |-> IF k < w THEN waits[k] ELSE waits[k + 1]]
  /\ agent_end_resume
  /\ UNCHANGED <<interceptors, modelView>>

\* The user runs /retry, a command registered when the extension is
\* loaded.
RetryCommand ==
  /\ retry
  /\ UNCHANGED <<interceptors, modelView>>

\* The user presses a key: the host hands the input to the interceptors in
\* turn until one consumes it.  The first decides: the others are the same
\* callback over the same state, so that none of them acts on an input the
\* first has passed on.
TerminalInput(data, editorText) ==
  /\ interceptors > 0
  /\ onTerminalInput(data, editorText)
  /\ UNCHANGED <<interceptors, modelView>>

\* The sessions explored: at most MaxHistory messages, at most MaxWaits
\* timers pending at once, at most MaxWideSessionStarts deliveries of
\* session_start.
Bounded(A) ==
  /\ A
  /\ Len(history') <= MaxHistory
  /\ Len(waits') <= MaxWaits
  /\ interceptors' <= MaxWideSessionStarts

Next ==
  \/ Bounded(SessionStart)
  \/ Bounded(UserPrompt)
  \/ Bounded(ContextAssembly)
  \/ \E outcome \in TurnOutcomes :
       Bounded(TurnEnd(outcome[1], outcome[2]))
  \/ Bounded(AgentEnd)
  \/ \E w \in 1..MaxWaits : Bounded(TimerFire(w))
  \/ Bounded(RetryCommand)
  \/ \E data \in TerminalData, editorText \in EditorTexts :
       Bounded(TerminalInput(data, editorText))

Spec == Init /\ [][Next]_vars

\* The same handlers over shorter sessions, with the error text of every
\* failed turn drawn from PatternTexts.
Short(A) ==
  /\ A
  /\ Len(history') <= MaxPatternHistory
  /\ Len(waits') <= MaxWaits
  /\ interceptors' <= MaxSessionStarts

PatternNext ==
  \/ Short(SessionStart)
  \/ Short(UserPrompt)
  \/ Short(ContextAssembly)
  \/ \E outcome \in PatternOutcomes : Short(TurnEnd(outcome[1], outcome[2]))
  \/ Short(AgentEnd)
  \/ \E w \in 1..MaxWaits : Short(TimerFire(w))
  \/ Short(RetryCommand)
  \/ \E data \in TerminalData, editorText \in EditorTexts :
       Short(TerminalInput(data, editorText))

PatternSpec == Init /\ [][PatternNext]_vars

\* The same handlers over longer sessions, in which every failure is the
\* abort of an upstream proxy and the user retries through /retry.
EpisodeOutcomes == {<<"normal", "">>, <<"aborted", "upstream aborted connection">>}

Long(A) ==
  /\ A
  /\ Len(history') <= MaxEpisodeHistory
  /\ Len(waits') <= MaxWaits
  /\ interceptors' <= MaxSessionStarts

EpisodeNext ==
  \/ Long(SessionStart)
  \/ Long(UserPrompt)
  \/ Long(ContextAssembly)
  \/ \E outcome \in EpisodeOutcomes : Long(TurnEnd(outcome[1], outcome[2]))
  \/ Long(AgentEnd)
  \/ \E w \in 1..MaxWaits : Long(TimerFire(w))
  \/ Long(RetryCommand)

EpisodeSpec == Init /\ [][EpisodeNext]_vars

\* One prompt whose every turn fails with an error of the automatic path,
\* and a user who does nothing else.  The host goes on with a run it has
\* started and a timer that was set expires.
AutoOutcomes ==
  {<<"aborted", "upstream aborted connection">>,
   <<"error", "upstream aborted connection">>,
   <<"aborted", "ABORTED">>,
   <<"error", "ABORTED">>,
   <<"error", "Request was aborted.">>,
   <<"error", "The operation aborted">>}

FirstPrompt == history = <<>> /\ Bounded(UserPrompt)
HostStep ==
  \/ Bounded(ContextAssembly)
  \/ \E outcome \in AutoOutcomes : Bounded(TurnEnd(outcome[1], outcome[2]))
  \/ Bounded(AgentEnd)
TimerStep == \E w \in 1..MaxWaits : Bounded(TimerFire(w))

AutoNext ==
  \/ Bounded(SessionStart)
  \/ FirstPrompt
  \/ HostStep
  \/ TimerStep

AutoSpec == Init /\ [][AutoNext]_vars /\ WF_vars(HostStep) /\ WF_vars(TimerStep)

\* Sessions of every kind of event in which a timer that was set expires.
\* A pending timer keeps a place in the bounded session for its trigger, so
\* that the bound never holds an expiry back.
FairOutcomes ==
  {<<"normal", "">>,
   <<"toolUse", "">>,
   <<"aborted", "upstream aborted connection">>,
   <<"aborted", "Request was aborted.">>,
   <<"error", "invalid api key">>}

Reserved(A) ==
  /\ A
  /\ Len(history') + Len(waits') <= MaxHistory
  /\ Len(waits') <= MaxWaits
  /\ interceptors' <= MaxSessionStarts

TimerExpiry == \E w \in 1..MaxWaits : Reserved(TimerFire(w))

FairNext ==
  \/ Reserved(SessionStart)
  \/ Reserved(UserPrompt)
  \/ Reserved(ContextAssembly)
  \/ \E outcome \in FairOutcomes : Reserved(TurnEnd(outcome[1], outcome[2]))
  \/ Reserved(AgentEnd)
  \/ TimerExpiry
  \/ Reserved(RetryCommand)
  \/ \E data \in TerminalData, editorText \in EditorTexts :
       Reserved(TerminalInput(data, editorText))

FairSpec == Init /\ [][FairNext]_vars /\ WF_vars(TimerExpiry)

\* ---------------------------------------------------------------------
\* Vocabulary of the properties
\* ---------------------------------------------------------------------
\* The step is agent_end's: the one step that ends a run.
AgentEndStep == phase = "ending" /\ phase' = "idle"

\* The step is turn_end's: the one step that ends a model call.  The
\* assistant message it delivers is the first the step adds to the run.
TurnEndStep == phase = "streaming" /\ phase' # "streaming"
TurnStopReason == runMessages'[Len(runMessages) + 1].stopReason

\* The assistant message agent_end looks at, in a state with a run ending.
HasLastAssistant == LastAssistantIndex(runMessages) > 0
LastStopReason == runMessages[LastAssistantIndex(runMessages)].stopReason
LastErrorText == runMessages[LastAssistantIndex(runMessages)].errorMessage

Markers(messages) == {i \in 1..Len(messages) : IsMarker(messages[i])}

\* The step sends a retry trigger / sends nothing.
TriggerSent == history' = Append(history, Stored(TriggerMessage))
NoTriggerSent == history' = history

\* The step leaves the automatic path alone: no increment, no wait, no trigger.
NoAutoRetry ==
  /\ retryAttempt' = retryAttempt
  /\ waits' = waits
  /\ NoTriggerSent

\* C1: with retryAttempt at the ceiling MAX_RETRIES = 3, an agent_end whose
\* failure is auto-retryable (the 4th of the episode) sends no trigger and
\* starts no wait, logs exactly one retry_exhausted record with attempt 3,
\* and leaves retryAttempt = 0 with lastErrorMessage and lastStopReason blank.
C1_AttemptCeiling ==
  [][(/\ AgentEndStep
      /\ HasLastAssistant
      /\ retryAttempt = 3
      /\ Classify(LastStopReason, LastErrorText) = "auto-retryable")
     => (/\ NoTriggerSent
         /\ waits' = waits
         /\ Len(logged') = 1
         /\ logged'[1].event = "retry_exhausted"
         /\ logged'[1].attempt = 3
         /\ retryAttempt' = 0
         /\ lastErrorMessage' = ""
         /\ lastStopReason' = "")]_vars

\* C1 witness: the exhaustion record of a fourth failure has just been logged.
C1_Witness ==
  /\ Len(logged) = 1
  /\ logged[1].event = "retry_exhausted"
  /\ logged[1].attempt = 3
  /\ Cardinality(Markers(history)) >= 3
  /\ retryAttempt = 0
  /\ phase = "idle"

\* C2: no message list handed to the model holds a message of the private
\* marker type (role custom, customType __retry_trigger).
C2_NoMarkerInModelView == Markers(modelView) = {}

\* C3: an agent_end whose last assistant message stopped with error or
\* aborted and whose error text matches a host-covered pattern increments
\* nothing, starts no wait and sends no trigger, also when the text matches
\* the auto-retryable pattern as well.
C3_HostCoveredNotRetried ==
  [][(/\ AgentEndStep
      /\ HasLastAssistant
      /\ LastStopReason \in {"error", "aborted"}
      /\ BUILTIN_RETRY_PATTERNS(LastErrorText))
     => (NoAutoRetry /\ logged' = <<>>)]_vars

\* C3 witness: a run has ended with a failure whose text matches the
\* host-covered and the auto-retryable pattern, while an episode was active.
C3_Witness ==
  /\ phase = "ending"
  /\ HasLastAssistant
  /\ LastStopReason \in {"error", "aborted"}
  /\ BUILTIN_RETRY_PATTERNS(LastErrorText)
  /\ RETRYABLE_PATTERNS(LastErrorText)
  /\ retryAttempt > 0

\* C4: an agent_end whose last assistant message stopped with "aborted" and
\* a user-cancellation text starts no automatic retry, and afterwards
\* lastResponseWasError is true and the agent idle, so that both manual
\* retry gates pass.
C4_UserAbortManualOnly ==
  [][(/\ AgentEndStep
      /\ HasLastAssistant
      /\ LastStopReason = "aborted"
      /\ UserAbortPattern(LastErrorText))
     => (/\ NoAutoRetry
         /\ logged' = <<>>
         /\ lastResponseWasError'
         /\ (RetryVerdict = "retry")'
         /\ InputGate("enter", "")')]_vars

\* C4 witness: a user-cancelled run has ended where the flag was still false.
C4_Witness ==
  /\ phase = "ending"
  /\ HasLastAssistant
  /\ LastStopReason = "aborted"
  /\ UserAbortPattern(LastErrorText)
  /\ ~lastResponseWasError

\* The entry both manual retry surfaces log.
ManualRetryEntry == LogEntry("manual_retry", "", "", 1, 1, 0)

\* C5: the /retry command, run while the agent is not idle, makes a warning
\* notification, sends no trigger, logs no manual_retry record and leaves
\* pendingRetryCleanup alone; run while the agent is idle after a
\* successful last turn it does the same with another warning text; it
\* sends a trigger or logs a record only when the agent is idle and
\* lastResponseWasError is true.
C5_ManualRetryGate ==
  [][RetryCommand =>
         /\ ~isIdle =>
              /\ notified'.level = "warning"
              /\ notified'.text = "Agent is still running."
              /\ NoTriggerSent
              /\ logged' = <<>>
              /\ pendingRetryCleanup' = pendingRetryCleanup
         /\ (isIdle /\ ~lastResponseWasError) =>
              /\ notified'.level = "warning"
              /\ notified'.text # "Agent is still running."
              /\ NoTriggerSent
              /\ logged' = <<>>
              /\ pendingRetryCleanup' = pendingRetryCleanup
         /\ (isIdle /\ lastResponseWasError) =>
              /\ TriggerSent
              /\ logged' = <<ManualRetryEntry>>
              /\ pendingRetryCleanup'
              /\ notified' = NoNotification]_vars

\* C5 witness: /retry has been refused while a failed run's retry was in
\* flight (the last response was an error, the agent is running).
C5_Witness ==
  /\ notified.text = "Agent is still running."
  /\ notified.level = "warning"
  /\ lastResponseWasError
  /\ ~isIdle

\* C6: a terminal input is consumed exactly when it is the Enter key, the
\* editor text trims to the empty string, the agent is idle and the last
\* response was an error or abort; then one manual_retry record is logged
\* and one trigger sent.  Every other input passes through: nothing is
\* returned, no trigger is sent, nothing is logged and no state changes.
C6_EnterInterception ==
  [][\A data \in TerminalData, editorText \in EditorTexts :
       TerminalInput(data, editorText) =>
         LET gate == /\ data = "enter"
                     /\ editorText \in {"", BlankEditorText}
                     /\ isIdle
                     /\ lastResponseWasError
         IN /\ (returned' = "consume") <=> gate
            /\ gate =>
                 /\ logged' = <<ManualRetryEntry>>
                 /\ TriggerSent
                 /\ pendingRetryCleanup'
            /\ ~gate =>
                 /\ returned' = "undefined"
                 /\ logged' = <<>>
                 /\ UNCHANGED <<extVars, status, waits, interceptors, hostVars, modelView>>]_vars

\* C6 witness: an Enter has been consumed and has started a retry run.
C6_Witness ==
  /\ returned = "consume"
  /\ logged = <<ManualRetryEntry>>
  /\ phase = "assemble"
  /\ IsMarker(history[Len(history)])

\* C7: an agent_end that starts a wait makes it attempt N = retryAttempt + 1
\* with 1 <= N <= MAX_RETRIES, and the wait started and the delayMs of the
\* retry record are 2000, 4000, 8000 ms for N = 1, 2, 3.
C7_BackoffSequence ==
  [][(AgentEndStep /\ waits' # waits) =>
       LET wait == waits'[Len(waits')]
           N == retryAttempt'
           doubled == CASE N = 1 -> 2000 [] N = 2 -> 4000 [] N = 3 -> 8000 [] OTHER -> 0
       IN /\ N = retryAttempt + 1
          /\ N \in 1..3
          /\ waits' = Append(waits, wait)
          /\ wait.attempt = N
          /\ wait.delayMs = doubled
          /\ Len(logged') = 1
          /\ logged'[1].event = "retry"
          /\ logged'[1].attempt = N
          /\ logged'[1].delayMs = doubled]_vars

\* C7 witness: the third wait of an episode is pending, of 8000 ms.
C7_Witness ==
  /\ retryAttempt = 3
  /\ Len(waits) = 1
  /\ waits[1] = [attempt |-> 3, delayMs |-> 8000]
  /\ logged = <<LogEntry("retry", lastStopReason, lastErrorMessage, 3, 3, 8000)>>

\* C8: a turn_end of an assistant message whose stop reason is neither
\* error nor aborted makes lastResponseWasError false; with retryAttempt > 0
\* it logs exactly one retry_succeeded record carrying that attempt and
\* resets retryAttempt, lastErrorMessage and lastStopReason; with
\* retryAttempt = 0 it logs nothing and notifies nothing.
C8_Recovery ==
  [][(TurnEndStep /\ TurnStopReason \notin {"error", "aborted"}) =>
         /\ ~lastResponseWasError'
         /\ retryAttempt > 0 =>
              /\ Len(logged') = 1
              /\ logged'[1].event = "retry_succeeded"
              /\ logged'[1].attempt = retryAttempt
              /\ retryAttempt' = 0
              /\ lastErrorMessage' = ""
              /\ lastStopReason' = ""
         /\ retryAttempt = 0 =>
              /\ logged' = <<>>
              /\ notified' = NoNotification
              /\ UNCHANGED episodeVars]_vars

\* C8 witness: a retried turn has just succeeded on attempt 2.
C8_Witness ==
  /\ Len(logged) = 1
  /\ logged[1].event = "retry_succeeded"
  /\ logged[1].attempt = 2
  /\ retryAttempt = 0
  /\ ~lastResponseWasError
  /\ notified.text = "Retry succeeded on attempt"

\* C9: a turn whose stop reason is "normal", whatever its error text, makes
\* lastResponseWasError false at its turn_end, and the agent_end of a run
\* that ends with it increments nothing, starts no wait, sends no trigger
\* and leaves lastResponseWasError false.
C9_NormalCompletion ==
  [][/\ (TurnEndStep /\ TurnStopReason = "normal") => ~lastResponseWasError'
     /\ (AgentEndStep /\ HasLastAssistant /\ LastStopReason = "normal") =>
          /\ NoAutoRetry
          /\ logged' = <<>>
          /\ ~lastResponseWasError
          /\ ~lastResponseWasError']_vars

\* C9 witness: a run is ending normally with a text that matches the
\* auto-retryable pattern, after an earlier failure.
C9_Witness ==
  /\ phase = "ending"
  /\ HasLastAssistant
  /\ LastStopReason = "normal"
  /\ LastErrorText = "upstream aborted connection"
  /\ ~lastResponseWasError
  /\ Markers(history) # {}

\* C10: every trigger sets pendingRetryCleanup; the context pass that finds
\* it set returns the list without its marker messages (the other messages
\* kept, in order) and clears it; a context pass that finds it clear
\* returns no list and changes no state of the extension.
C10_ScrubOnce ==
  [][/\ TriggerSent => pendingRetryCleanup'
     /\ (ContextAssembly /\ pendingRetryCleanup) =>
          /\ returned' = "messages"
          /\ Markers(modelView') = {}
          /\ Len(modelView') = Len(history) - Cardinality(Markers(history))
          /\ \A i \in 1..Len(modelView') : \E j \in i..Len(history) : modelView'[i] = history[j]
          /\ ~pendingRetryCleanup'
     /\ (ContextAssembly /\ ~pendingRetryCleanup) =>
          /\ returned' = "undefined"
          /\ modelView' = history
          /\ UNCHANGED <<extVars, status, waits, history>>]_vars

\* C10 witness: the context pass after a trigger has returned the cleaned
\* list, the marker still being in the session.
C10_Witness ==
  /\ returned = "messages"
  /\ phase = "streaming"
  /\ ~pendingRetryCleanup
  /\ Markers(history) # {}
  /\ Markers(modelView) = {}

\* C11: between two resets of retryAttempt to 0 the automatic path sends
\* at most MAX_RETRIES triggers (an episode that keeps failing ends after
\* exactly MAX_RETRIES of them).
C11_AutoTriggerCeiling == autoTriggers <= MAX_RETRIES

\* The first half of C11, where the user does nothing and every retried turn
\* fails again: the episode ends after exactly MAX_RETRIES triggers with
\* retryAttempt = 0, no wait pending and the status line unset.
EpisodeOver ==
  /\ retryAttempt = 0
  /\ waits = <<>>
  /\ ~status.set
  /\ Cardinality(Markers(history)) = MAX_RETRIES
  /\ phase = "idle"
C11_LoopTerminates == (retryAttempt = 1) ~> EpisodeOver

\* A run that a retry trigger started is still in progress.
TriggeredRunInProgress == ~isIdle /\ Markers(runMessages) # {}

\* C12: no retry trigger (of an expired timer, of /retry or of Enter) is sent
\* while the run a previous trigger started is still in progress or while
\* the marker of a previous trigger has not been scrubbed.
C12_OneMarkerOutstanding ==
  [][TriggerSent => (~pendingRetryCleanup /\ ~TriggeredRunInProgress)]_vars

\* The run that is ending failed / failed with a failure of the automatic
\* path: stop reason error or aborted, no user-cancellation phrase with
\* aborted, no host-covered pattern, and the word "aborted" in the text.
RunFailed == HasLastAssistant /\ LastStopReason \in {"error", "aborted"}
RunFailedAutoRetryable ==
  /\ RunFailed
  /\ ~(LastStopReason = "aborted" /\ UserAbortPattern(LastErrorText))
  /\ ~BUILTIN_RETRY_PATTERNS(LastErrorText)
  /\ RETRYABLE_PATTERNS(LastErrorText)

\* C13 as claimed: after the agent_end of a failed run, lastResponseWasError
\* is true with retryAttempt = 0 exactly when the failure was classified
\* ignore, deferred or terminal (not auto-retryable).
C13_DisagreeIffNotAutoRetryable ==
  [][(AgentEndStep /\ RunFailed) =>
       ((lastResponseWasError' /\ retryAttempt' = 0) <=> ~RunFailedAutoRetryable)]_vars

\* C13 amended: after the agent_end of a failed run lastResponseWasError is
\* true, and retryAttempt = 0 exactly when the failure was not auto-retryable
\* and no episode was active, or was auto-retryable and found the counter at
\* the ceiling (exhaustion); a failure that is not auto-retryable leaves the
\* counter of an active episode as it is.
C13_DisagreeAmended ==
  [][(AgentEndStep /\ RunFailed) =>
       /\ lastResponseWasError'
       /\ (retryAttempt' = 0) <=>
            IF RunFailedAutoRetryable THEN retryAttempt = MAX_RETRIES
                                      ELSE retryAttempt = 0
       /\ ~RunFailedAutoRetryable => retryAttempt' = retryAttempt]_vars

\* C13 witness: at rest after an exhausted episode the last turn counts as
\* failed and no episode is active, the failure having been auto-retryable.
C13_Witness ==
  /\ phase = "idle"
  /\ lastResponseWasError
  /\ retryAttempt = 0
  /\ Len(logged) = 1
  /\ logged[1].event = "retry_exhausted"
  /\ RETRYABLE_PATTERNS(logged[1].errorMessage)
  /\ waits = <<>>

\* C14: between handler steps, a backoff wait suspended or not,
\* retryAttempt is one of 0..MAX_RETRIES; the value MAX_RETRIES + 1 that
\* line 177 produces is reset within the same agent_end step.
C14_AttemptRange == retryAttempt \in 0..MAX_RETRIES

\* C14 witness: a run is ending with another auto-retryable failure while
\* the counter is at the ceiling and a wait is suspended: the step that
\* passes through MAX_RETRIES + 1 is next.
C14_Witness ==
  /\ phase = "ending"
  /\ RunFailedAutoRetryable
  /\ retryAttempt = MAX_RETRIES
  /\ waits # <<>>

\* The wait list after the expiry of its w-th timer.
WaitsWithout(w) ==
  [k \in 1..(Len(waits) - 1) |-> IF k < w THEN waits[k] ELSE waits[k + 1]]

\* The step is the expiry of one pending timer: the status line is unset and
\* exactly one trigger is sent.
ExpiryStep ==
  /\ \E w \in 1..Len(waits) : waits' = WaitsWithout(w)
  /\ ~status'.set
  /\ TriggerSent
  /\ pendingRetryCleanup'

\* C15: a wait leaves the pending waits in one way only, by the expiry that
\* unsets the status line and sends exactly one trigger, whatever happened
\* during the wait; a trigger that no manual retry sent comes from such an
\* expiry; and every pending wait expires (once waits are pending, a state
\* with none pending follows).
C15_WaitEndsInTrigger ==
  /\ [][/\ waits' # waits =>
            \/ AgentEndStep /\ Len(waits') = Len(waits) + 1
            \/ ExpiryStep
        /\ (TriggerSent /\ logged' # <<ManualRetryEntry>>) => ExpiryStep]_vars
  /\ (waits # <<>>) ~> (waits = <<>>)

\* C15 witness: a timer has expired while a manually retried run was in
\* progress, after that run's turn had reset the episode: the trigger was
\* sent all the same.
C15_Witness ==
  /\ waits = <<>>
  /\ autoTriggers = 1
  /\ retryAttempt = 0
  /\ phase = "ending"
  /\ IsMarker(history[Len(history)])
  /\ IsMarker(runMessages[1])
  /\ pendingRetryCleanup

\* C16: whenever retryAttempt = 0 and no wait is pending the status line is
\* unset; a step that takes retryAttempt from a positive value to 0 (a
\* successful turn_end, an exhausted agent_end) leaves the status line
\* unset; and the expiry of a wait unsets it in the step that sends the
\* trigger.
C16_StatusCleared ==
  [][/\ (retryAttempt' = 0 /\ waits' = <<>>) => ~status'.set
     /\ (retryAttempt > 0 /\ retryAttempt' = 0) => ~status'.set
     /\ Len(waits') < Len(waits) => (~status'.set /\ TriggerSent)]_vars

\* C16 witness: a successful turn has ended an episode whose status line
\* was showing, the wait of that episode still pending.
C16_Witness ==
  /\ retryAttempt = 0
  /\ ~status.set
  /\ Len(logged) = 1
  /\ logged[1].event = "retry_succeeded"
  /\ waits # <<>>
  /\ phase = "ending"

\* What a handler step leaves behind, the outcome of the append apart: the
\* retry state, the status line, the notification, the messages sent, the
\* waits, what was returned and the entry handed to logRetryEvent.
flowVars ==
  <<retryAttempt, lastErrorMessage, lastStopReason, lastResponseWasError,
    pendingRetryCleanup, status, logged, waits, interceptors, history, runMessages,
    phase, modelView, returned, notified, autoTriggers>>

\* C17: for every handler step that hands an entry to logRetryEvent, the
\* same handler step with the other outcome of the append (failed where it
\* succeeded, succeeded where it failed) is possible from the same state
\* and leaves the same retry state, status line, notification, messages
\* sent and waits: the append's failure is not seen and ends no handler.
C17_LoggingNeverBreaksFlow ==
  [][logged' # <<>> =>
       \E flow \in {flowVars'}, outcome \in {appended'} :
         /\ outcome \in {<<>>, logged'}
         /\ ENABLED (Next /\ flowVars' = flow /\ appended' # outcome)]_vars

\* C17 witness: the retry record of a second attempt could not be appended,
\* and the wait has started and the status line shows all the same.
C17_Witness ==
  /\ Len(logged) = 1
  /\ logged[1].event = "retry"
  /\ appended = <<>>
  /\ retryAttempt = 2
  /\ status.set
  /\ waits # <<>>
  /\ waits[Len(waits)].delayMs = 4000

\* C18: retryAttempt, lastErrorMessage and lastStopReason change in three
\* kinds of step only: an agent_end of an auto-retryable failure below the
\* ceiling adds exactly 1 to the counter, one at the ceiling resets it to 0
\* (exhaustion), and a turn_end of a turn that neither failed nor was
\* aborted resets it to 0.  /retry, Enter and every other input, the context
\* handler, a timer's expiry, and an agent_end of a run that did not fail
\* with an auto-retryable failure leave the three as they are.
C18_EpisodeFrame ==
  [][/\ episodeVars' # episodeVars =>
          \/ /\ AgentEndStep /\ RunFailedAutoRetryable
             /\ retryAttempt < MAX_RETRIES
             /\ retryAttempt' = retryAttempt + 1
          \/ /\ AgentEndStep /\ RunFailedAutoRetryable
             /\ retryAttempt = MAX_RETRIES
             /\ retryAttempt' = 0
          \/ /\ TurnEndStep /\ TurnStopReason \notin {"error", "aborted"}
             /\ retryAttempt > 0
             /\ retryAttempt' = 0
     /\ (\/ RetryCommand
         \/ \E data \in TerminalData, editorText \in EditorTexts :
              TerminalInput(data, editorText)
         \/ ContextAssembly
         \/ \E w \in 1..MaxWaits : TimerFire(w)
         \/ AgentEndStep /\ ~RunFailedAutoRetryable)
        => UNCHANGED episodeVars]_vars

\* C18 witness: /retry has retried during the second wait of an episode and
\* the episode stands as it was.
C18_Witness ==
  /\ logged = <<ManualRetryEntry>>
  /\ returned = "undefined"
  /\ phase = "assemble"
  /\ retryAttempt = 2
  /\ lastErrorMessage = "upstream aborted connection"
  /\ lastStopReason = "aborted"
  /\ Len(waits) = 1

\* C19: between handler steps, retryAttempt > 0 implies that
\* lastResponseWasError is true: while an episode is active the outcome
\* condition of both manual retry gates holds.
C19_ActiveEpisodeFailed == retryAttempt > 0 => lastResponseWasError

\* C19 witness: the third wait of an episode and an earlier one are
\* pending, the agent is idle, and Enter on a blank editor would retry.
C19_Witness ==
  /\ retryAttempt = MAX_RETRIES
  /\ Len(waits) = 2
  /\ lastResponseWasError
  /\ InputGate("enter", BlankEditorText)
  /\ RetryVerdict = "retry"

====
